---- MODULE Spec2Model ----
(***************************************************************************)
(* The live voice session of src/App.tsx: startSession / stopSession, the  *)
(* transport callbacks (onopen, onmessage = handleMessage, onclose), the   *)
(* playback cursor, the two live transcript strings, the generate_code     *)
(* tool job and the capture path (onaudioprocess to sendRealtimeInput).    *)
(* Every await of the source is a suspension point: the code               *)
(* between two awaits is one atomic action, and any other handler may run  *)
(* while an invocation is suspended.                                       *)
(***************************************************************************)
EXTENDS Integers, Sequences, FiniteSets, TLC

\* ---------------------------------------------------------------- bounds
\* startSession invocations in Spec, SpecAudio and SpecTool
MaxStarts == 2
AudioStarts == 1
ToolStarts == 2
\* inbound messages in SpecAudio and in SpecTool, and the jobs they start
MaxMsgs == 2
ToolMsgs == 2
MaxJobs == 2
\* the largest clock value and the longest buffer
MaxTime == 1
MaxDur == 1
\* startSession invocations in SpecCapture and in SpecRecapture, and the
\* frames captured
CaptureStarts == 2
RecaptureStarts == 3
MaxFrames == 2
\* handleSendMessage invocations
MaxChats == 2
\* changes of the code prop of PreviewFrame
MaxEdits == 4

\* ------------------------------------------------------ program constants
HistoryLimit == 15

MicDenied == "Microphone permission denied"
KernelOverload == "Kernel overload"
Compiled == "Compiled."
SynthesisFailed == "// Synthesis failed"
GenerateCode == "generate_code"
NeuralLinkFailed == "Neural link failed"
NoResponse == "No response generated."
\* the setTimeout delay of PreviewFrame, in ms, and the step of its clock
Delay == 600
Quantum == Delay \div 3

\* --------------------------------------------------------------- values
Null == "null"
Undefined == "undefined"

Max(a, b) == IF a >= b THEN a ELSE b
Min(a, b) == IF a <= b THEN a ELSE b

Attempts ==
    1..Max(Max(MaxStarts, Max(CaptureStarts, RecaptureStarts)), Max(AudioStarts, ToolStarts))
Handlers == 1..Max(MaxMsgs, ToolMsgs)
Chats == 1..MaxChats

\* ------------------------------------------------------- inbound messages
\* message.serverContent.modelTurn.parts[0].inlineData.data: absent, or a
\* payload that decodes to a buffer of dur time units, or one that does not
\* decode.
NoAudio == [present |-> FALSE, valid |-> FALSE, dur |-> 0]
Malformed == [present |-> TRUE, valid |-> FALSE, dur |-> 0]
Pcm(d) == [present |-> TRUE, valid |-> TRUE, dur |-> d]

\* a transcription field: Null (no such object in the message), Undefined
\* (the object carries no text) or a text.
Texts == {"p1", "p2"}

Call(id, name) == [id |-> id, name |-> name, description |-> "spec of " \o id, language |-> "python"]

Msg(audio, input, output, calls) ==
    [audio |-> audio, input |-> input, output |-> output, calls |-> calls]
NoMessage == Msg(NoAudio, Null, Null, <<>>)

AudioMessages ==
    {Msg(Pcm(d), Null, Null, <<>>) : d \in 1..MaxDur}
    \cup {Msg(Malformed, Null, Null, <<>>), Msg(Pcm(1), "p1", Null, <<>>)}
TranscriptMessages ==
    {Msg(NoAudio, "p2", Null, <<>>), Msg(NoAudio, Undefined, Null, <<>>),
     Msg(NoAudio, Null, "p1", <<>>)}
ToolMessages ==
    {Msg(NoAudio, Null, Null, <<Call("X", GenerateCode)>>),
     Msg(NoAudio, Null, Null, <<Call("Y", "other")>>),
     Msg(NoAudio, Null, Null, <<Call("X", GenerateCode), Call("Y", GenerateCode)>>)}
Messages == AudioMessages \cup TranscriptMessages \cup ToolMessages

\* response.text of the secondary generateContent call
ResponseTexts == {"", "def rev(s): return s[::-1]"}

VARIABLES
    state,              \* the React state record of App
    startPc,            \* position of each startSession invocation
    stream,             \* the MediaStream acquired by each invocation
    audioCtx,           \* the inCtx/outCtx pair created by each invocation
    scriptProcessor,    \* the ScriptProcessorNode wired by each onopen
    conn,               \* the live connection opened by each invocation
    streamRef, audioContextRef, scriptProcessorRef, sessionPromiseRef,
    now,                \* outAudioContextRef.current.currentTime
    nextStartTimeRef,
    sourcesRef,         \* the sources added, in insertion order
    handlers,           \* the handleMessage invocations, by arrival index
    nMsgs,              \* inbound messages delivered so far
    invocations,        \* history: the generate_code jobs started
    outbox,             \* history: the sendToolResponse calls made
    cursorRaised,       \* history: an arrival raised the cursor since the last start
    lastInput, lastOutput,  \* history: newest transcription event per channel
    captured,           \* onaudioprocess events so far; each frame is named by its number
    thens,              \* the reactions registered on each pending sessionPromise, in order
    wire,               \* history: the sendRealtimeInput calls made
    chats,              \* the handleSendMessage invocations
    requests,           \* history: the generateContent calls of handleSendMessage
    codeProp,           \* PreviewFrame: the code prop
    debouncedCode,      \* PreviewFrame: the state rendered in the iframe
    isUpdating,         \* PreviewFrame: the state behind the spinner
    timer,              \* PreviewFrame: the timeout of the last effect run
    stable,             \* history: ms since the code prop last changed
    lastTimeout,        \* history: what became of the timeout set last
    rendered,           \* history: the values debouncedCode has taken
    edits               \* history: the number of changes of the code prop

vars == <<state, startPc, stream, audioCtx, scriptProcessor, conn,
          streamRef, audioContextRef, scriptProcessorRef, sessionPromiseRef,
          now, nextStartTimeRef, sourcesRef, handlers, nMsgs,
          invocations, outbox, cursorRaised, lastInput, lastOutput,
          captured, thens, wire, chats, requests,
          codeProp, debouncedCode, isUpdating, timer, stable, lastTimeout,
          rendered, edits>>

sessionVars == <<startPc, stream, audioCtx, scriptProcessor, conn,
                 streamRef, audioContextRef, scriptProcessorRef, sessionPromiseRef>>
audioVars == <<nextStartTimeRef, sourcesRef, cursorRaised>>
transcriptHist == <<lastInput, lastOutput>>
captureVars == <<captured, thens, wire>>
chatVars == <<chats, requests>>
frameVars ==
    <<codeProp, debouncedCode, isUpdating, timer, stable, lastTimeout, rendered, edits>>

\* outAudioContextRef is assigned together with audioContextRef (lines 126-127)
\* and closed together with it (lines 165-166): one attempt index names both.
outAudioContextRef == audioContextRef

\* ------------------------------------------------------------ initial state
\* no timeout pending; a pending one holds the code its closure captured and
\* the ms left until it is due
NoTimer == [set |-> FALSE, code |-> "", left |-> 0]

\* a handleSendMessage invocation: its position, the grounding it read at
\* line 185, and what became of its getCurrentPosition call
NoChat == [pc |-> "none", grounding |-> "none", geo |-> "none"]

\* ctx is the output context read at line 60, held across the decode await.
NoHandler ==
    [pc |-> "none", msg |-> NoMessage, via |-> 0, ctx |-> 0, i |-> 0, cur |-> 0, awaiting |-> 0]

Init ==
    /\ state = [isListening |-> FALSE, isProcessing |-> FALSE,
                currentCode |-> "", currentDescription |-> "",
                history |-> <<>>, error |-> Null,
                liveUserText |-> "", liveAiText |-> "",
                chatHistory |-> <<>>, useGrounding |-> "none"]
    /\ startPc = [a \in Attempts |-> "idle"]
    /\ stream = [a \in Attempts |-> "none"]
    /\ audioCtx = [a \in Attempts |-> "none"]
    /\ scriptProcessor = [a \in Attempts |-> "none"]
    /\ conn = [a \in Attempts |-> "none"]
    /\ streamRef = 0
    /\ audioContextRef = 0
    /\ scriptProcessorRef = 0
    /\ sessionPromiseRef = 0
    /\ now = 0
    /\ nextStartTimeRef = 0
    /\ sourcesRef = <<>>
    /\ handlers = [h \in Handlers |-> NoHandler]
    /\ nMsgs = 0
    /\ invocations = <<>>
    /\ outbox = <<>>
    /\ cursorRaised = FALSE
    /\ lastInput = Null
    /\ lastOutput = Null
    /\ captured = 0
    /\ thens = [a \in Attempts |-> <<>>]
    /\ wire = <<>>
    /\ chats = [c \in Chats |-> NoChat]
    /\ requests = <<>>
    /\ codeProp = ""
    /\ debouncedCode = codeProp
    /\ isUpdating = FALSE
    /\ timer = NoTimer
    /\ stable = 0
    /\ lastTimeout = "none"
    /\ rendered = <<debouncedCode>>
    /\ edits = 0

\* ------------------------------------------------------------- startSession
\* The button of lines 339-345 calls startSession when state.isListening is
\* false; the invocation suspends at getUserMedia (line 120).
ClickStart ==
    /\ ~state.isListening
    /\ \E a \in Attempts :
        /\ startPc[a] = "idle"
        /\ \A b \in Attempts : b < a => startPc[b] # "idle"
        /\ startPc' = [startPc EXCEPT ![a] = "gum"]
    /\ UNCHANGED <<state, stream, audioCtx, scriptProcessor, conn,
                   streamRef, audioContextRef, scriptProcessorRef, sessionPromiseRef,
                   now, handlers, nMsgs, invocations, outbox>>
    /\ UNCHANGED audioVars
    /\ UNCHANGED transcriptHist
    /\ UNCHANGED captureVars
    /\ UNCHANGED frameVars
    /\ UNCHANGED chatVars

\* getUserMedia resolves: lines 121-124, up to the awaits of resume().
GumResolved(a) ==
    /\ startPc[a] = "gum"
    /\ startPc' = [startPc EXCEPT ![a] = "resume"]
    /\ stream' = [stream EXCEPT ![a] = "live"]
    /\ streamRef' = a
    /\ audioCtx' = [audioCtx EXCEPT ![a] = "running"]
    /\ UNCHANGED <<state, scriptProcessor, conn,
                   audioContextRef, scriptProcessorRef, sessionPromiseRef,
                   now, handlers, nMsgs, invocations, outbox>>
    /\ UNCHANGED audioVars
    /\ UNCHANGED transcriptHist
    /\ UNCHANGED captureVars
    /\ UNCHANGED frameVars
    /\ UNCHANGED chatVars

\* The rejection not caught before line 156: the session is reported live.
GumRejected_FallThrough(a) ==
    /\ startPc[a] = "gum"
    /\ startPc' = [startPc EXCEPT ![a] = "denied"]
    /\ state' = [state EXCEPT !.isListening = TRUE, !.error = MicDenied]
    /\ UNCHANGED <<stream, audioCtx, scriptProcessor, conn,
                   streamRef, audioContextRef, scriptProcessorRef, sessionPromiseRef,
                   now, handlers, nMsgs, invocations, outbox>>
    /\ UNCHANGED audioVars
    /\ UNCHANGED transcriptHist
    /\ UNCHANGED captureVars
    /\ UNCHANGED frameVars
    /\ UNCHANGED chatVars

\* getUserMedia rejects: the catch of lines 157-159.
GumRejected(a) ==
    /\ startPc[a] = "gum"
    /\ startPc' = [startPc EXCEPT ![a] = "denied"]
    /\ state' = [state EXCEPT !.error = MicDenied]
    /\ UNCHANGED <<stream, audioCtx, scriptProcessor, conn,
                   streamRef, audioContextRef, scriptProcessorRef, sessionPromiseRef,
                   now, handlers, nMsgs, invocations, outbox>>
    /\ UNCHANGED audioVars
    /\ UNCHANGED transcriptHist
    /\ UNCHANGED captureVars
    /\ UNCHANGED frameVars
    /\ UNCHANGED chatVars

\* Both resume() promises resolve: lines 126-156.  ai.live.connect is called
\* and not awaited; isListening is set while the connection is still pending.
ResumeDone(a) ==
    /\ startPc[a] = "resume"
    /\ startPc' = [startPc EXCEPT ![a] = "done"]
    /\ audioContextRef' = a
    /\ now' = 0
    /\ conn' = [conn EXCEPT ![a] = "connecting"]
    /\ sessionPromiseRef' = a
    /\ state' = [state EXCEPT !.isListening = TRUE, !.error = Null]
    /\ UNCHANGED <<stream, audioCtx, scriptProcessor, streamRef, scriptProcessorRef,
                   handlers, nMsgs, invocations, outbox>>
    /\ UNCHANGED audioVars
    /\ UNCHANGED transcriptHist
    /\ UNCHANGED captureVars
    /\ UNCHANGED frameVars
    /\ UNCHANGED chatVars

\* onopen (lines 141-150): the capture processor is wired.  The promise
\* returned by connect (line 130) is still pending.
ConnOpen(a) ==
    /\ conn[a] = "connecting"
    /\ conn' = [conn EXCEPT ![a] = "opened"]
    /\ scriptProcessor' = [scriptProcessor EXCEPT ![a] = "connected"]
    /\ scriptProcessorRef' = a
    /\ UNCHANGED <<state, startPc, stream, audioCtx,
                   streamRef, audioContextRef, sessionPromiseRef,
                   now, handlers, nMsgs, invocations, outbox>>
    /\ UNCHANGED audioVars
    /\ UNCHANGED transcriptHist
    /\ UNCHANGED captureVars
    /\ UNCHANGED frameVars
    /\ UNCHANGED chatVars

\* The connection attempt fails: no onopen; the promise never yields a
\* session.  The socket's close event may or may not reach onclose (line 152).
ConnFail(a) ==
    /\ conn[a] = "connecting"
    /\ conn' = [conn EXCEPT ![a] = "failed"]
    /\ \E notified \in BOOLEAN :
        state' = IF notified THEN [state EXCEPT !.isListening = FALSE] ELSE state
    /\ UNCHANGED <<startPc, stream, audioCtx, scriptProcessor,
                   streamRef, audioContextRef, scriptProcessorRef, sessionPromiseRef,
                   now, handlers, nMsgs, invocations, outbox>>
    /\ UNCHANGED audioVars
    /\ UNCHANGED transcriptHist
    /\ UNCHANGED captureVars
    /\ UNCHANGED frameVars
    /\ UNCHANGED chatVars

\* onclose (line 152): the remote side or the network ends an open connection.
ConnClose(a) ==
    /\ conn[a] = "open"
    /\ conn' = [conn EXCEPT ![a] = "closed"]
    /\ state' = [state EXCEPT !.isListening = FALSE]
    /\ UNCHANGED <<startPc, stream, audioCtx, scriptProcessor,
                   streamRef, audioContextRef, scriptProcessorRef, sessionPromiseRef,
                   now, handlers, nMsgs, invocations, outbox>>
    /\ UNCHANGED audioVars
    /\ UNCHANGED transcriptHist
    /\ UNCHANGED captureVars
    /\ UNCHANGED frameVars
    /\ UNCHANGED chatVars

\* ------------------------------------------------------------ capture path
\* The reactions of a promise run in any order but the one they were
\* registered in.
Flush_Reversed(queue) == [i \in DOMAIN queue |-> queue[Len(queue) + 1 - i]]
\* The reactions registered before the promise was fulfilled are forgotten.
Flush_Dropped(queue) == <<>>
\* sessionPromise.then (line 145): when the promise is fulfilled, the
\* reactions registered on it run in the order of their registration.
Flush(queue) == queue

\* history: s.sendRealtimeInput called by session a for frame n, the
\* connection being in state c; waited tells that the frame was captured
\* before the promise was fulfilled.
Sent(a, n, c, waited) == [n |-> n, sess |-> a, open |-> (c = "open"), waited |-> waited]

\* The promise returned by ai.live.connect (line 130) is fulfilled with the
\* session: the reactions registered by onaudioprocess meanwhile send their
\* frames.
ConnectResolved(a) ==
    /\ conn[a] = "opened"
    /\ conn' = [conn EXCEPT ![a] = "open"]
    /\ LET frames == Flush(thens[a])
       IN wire' = wire \o [i \in DOMAIN frames |-> Sent(a, frames[i], "open", TRUE)]
    /\ thens' = [thens EXCEPT ![a] = <<>>]
    /\ UNCHANGED <<state, startPc, stream, audioCtx, scriptProcessor,
                   streamRef, audioContextRef, scriptProcessorRef, sessionPromiseRef,
                   now, handlers, nMsgs, invocations, outbox, captured>>
    /\ UNCHANGED audioVars
    /\ UNCHANGED transcriptHist
    /\ UNCHANGED chatVars
    /\ UNCHANGED frameVars

\* onaudioprocess (lines 144-146) of the processor wired by onopen of
\* attempt a: it fires while the processor is connected and its context
\* runs.  The frame is sent at once when the session promise is fulfilled,
\* and waits as a reaction of the promise otherwise.
Capture(a) ==
    /\ scriptProcessor[a] = "connected"
    /\ audioCtx[a] = "running"
    /\ captured < MaxFrames
    /\ captured' = captured + 1
    /\ IF conn[a] = "opened"
       THEN /\ thens' = [thens EXCEPT ![a] = Append(@, captured + 1)]
            /\ UNCHANGED wire
       ELSE /\ wire' = Append(wire, Sent(a, captured + 1, conn[a], FALSE))
            /\ UNCHANGED thens
    /\ UNCHANGED sessionVars
    /\ UNCHANGED audioVars
    /\ UNCHANGED transcriptHist
    /\ UNCHANGED chatVars
    /\ UNCHANGED frameVars
    /\ UNCHANGED <<state, now, handlers, nMsgs, invocations, outbox>>

\* -------------------------------------------------------------- stopSession
Release(f, ref, to) == IF ref = 0 \/ f[ref] = "none" THEN f ELSE [f EXCEPT ![ref] = to]

\* history: the jobs whose generateContent call is outstanding are marked.
MarkStopped(invs) ==
    [k \in DOMAIN invs |->
        IF invs[k].status = "Dispatched" THEN [invs[k] EXCEPT !.stopped = TRUE] ELSE invs[k]]

\* What stopSession reads and writes.
Session ==
    [scriptProcessor |-> scriptProcessor, scriptProcessorRef |-> scriptProcessorRef,
     stream |-> stream, streamRef |-> streamRef,
     audioCtx |-> audioCtx, audioContextRef |-> audioContextRef,
     conn |-> conn, sessionPromiseRef |-> sessionPromiseRef,
     isListening |-> state.isListening]

\* Lines 162-168.  No ref is cleared; the session held by sessionPromiseRef
\* is not closed.
stopSession(s) ==
    [s EXCEPT !.scriptProcessor = Release(s.scriptProcessor, s.scriptProcessorRef, "disconnected"),
              !.stream = Release(s.stream, s.streamRef, "stopped"),
              !.audioCtx = Release(s.audioCtx, s.audioContextRef, "closed"),
              !.isListening = FALSE]

\* The button of lines 339-345 calls stopSession when state.isListening is true.
ClickStop ==
    /\ state.isListening
    /\ LET after == stopSession(Session)
       IN /\ scriptProcessor' = after.scriptProcessor
          /\ stream' = after.stream
          /\ audioCtx' = after.audioCtx
          /\ conn' = after.conn
          /\ state' = [state EXCEPT !.isListening = after.isListening]
    /\ invocations' = MarkStopped(invocations)
    /\ UNCHANGED <<startPc,
                   streamRef, audioContextRef, scriptProcessorRef, sessionPromiseRef,
                   now, handlers, nMsgs, outbox>>
    /\ UNCHANGED audioVars
    /\ UNCHANGED transcriptHist
    /\ UNCHANGED captureVars
    /\ UNCHANGED frameVars
    /\ UNCHANGED chatVars

\* ------------------------------------------------------------ handleMessage
\* decodeAudioData(decode(audioData), ctx, 24000, 1) as the code uses it: a
\* promise of a buffer with a duration, or a rejection.
DecodeAudioData(audio) == [ok |-> audio.valid, duration |-> audio.dur]

\* an invocation that has returned ("done") or thrown ("rejected")
Finished(how) == [NoHandler EXCEPT !.pc = how]

\* text || '' of lines 73 and 76
OrEmpty(text) == IF text = Undefined \/ text = "" THEN "" ELSE text

\* Lines 72-77: the two transcript updates, applied to state record st.
Transcripts(st, m) ==
    LET s1 == IF m.input # Null
              THEN [st EXCEPT !.liveUserText = OrEmpty(m.input)] ELSE st
    IN IF m.output # Null
       THEN [s1 EXCEPT !.liveAiText = OrEmpty(m.output)] ELSE s1

\* Every call taken for generate_code.
NextGenerate_Any(calls, i) == i
\* The for loop of line 80 from position i on: the first call named
\* generate_code, or Len + 1 when there is none (line 81).
RECURSIVE NextGenerate(_, _)
NextGenerate(calls, i) ==
    IF i > Len(calls) THEN i
    ELSE IF calls[i].name = GenerateCode THEN i
    ELSE NextGenerate(calls, i + 1)

\* Lines 79-91 for handler h, from call i on, st being the state record so
\* far: either the loop ends, or isProcessing is set and the invocation
\* suspends at the generateContent await of line 87.
ToolLoop(h, hd, i, st, invs) ==
    LET calls == hd.msg.calls
        j == NextGenerate(calls, i)
    IN IF j > Len(calls)
       THEN /\ handlers' = [handlers EXCEPT ![h] = Finished("done")]
            /\ state' = st
            /\ invocations' = invs
       ELSE /\ handlers' = [handlers EXCEPT ![h] =
                   [hd EXCEPT !.pc = "gen", !.i = j, !.cur = Len(invs) + 1]]
            /\ state' = [st EXCEPT !.isProcessing = TRUE,
                                   !.currentDescription = calls[j].description]
            /\ invocations' = Append(invs,
                   [h |-> h, id |-> calls[j].id, name |-> calls[j].name,
                    sess |-> hd.via, live |-> st.isListening,
                    status |-> "Dispatched", outcome |-> "pending", text |-> "",
                    awaited |-> 0, stopped |-> FALSE, done |-> FALSE])

\* The cursor restarted from the clock on every arrival.
CursorOnArrival_Reset(cursor, t) == t
\* Line 62: the cursor on arrival of an audio message at clock value t.
CursorOnArrival(cursor, t) == Max(cursor, t)
\* Every buffer started at once instead of at the cursor.
StartAt_Now(cursor, t) == t
\* Line 67: the time passed to source.start.
StartAt(cursor, t) == cursor
\* Line 68: the cursor after a buffer of duration d was started.
CursorAfter(cursor, d) == cursor + d

\* onmessage (line 151) on the open connection a, at clock value t: lines
\* 59-62, and for a message without audio lines 72-91 up to the first await.
Receive(a, m, t) ==
    /\ conn[a] = "open"
    /\ nMsgs < MaxMsgs
    /\ t >= now
    /\ t > now => audioCtx[outAudioContextRef] = "running"
    /\ nMsgs' = nMsgs + 1
    /\ now' = t
    /\ lastInput' = IF m.input # Null THEN m.input ELSE lastInput
    /\ lastOutput' = IF m.output # Null THEN m.output ELSE lastOutput
    /\ LET h == nMsgs + 1
           hd == [NoHandler EXCEPT !.msg = m, !.via = a]
       IN IF m.audio.present /\ outAudioContextRef # 0
          THEN /\ nextStartTimeRef' = CursorOnArrival(nextStartTimeRef, t)
               /\ cursorRaised' = (cursorRaised \/ t > nextStartTimeRef)
               /\ handlers' = [handlers EXCEPT ![h] =
                      [hd EXCEPT !.pc = "decode", !.ctx = outAudioContextRef]]
               /\ UNCHANGED <<state, invocations, sourcesRef>>
          ELSE /\ ToolLoop(h, hd, 1, Transcripts(state, m), invocations)
               /\ UNCHANGED audioVars
    /\ UNCHANGED sessionVars
    /\ UNCHANGED outbox
    /\ UNCHANGED captureVars
    /\ UNCHANGED frameVars
    /\ UNCHANGED chatVars

\* The decode await of line 63 resolves: lines 64-69, then 72-91.  A source
\* started with a time already past begins to play at once (begun).
DecodeOk(h) ==
    LET hd == handlers[h]
        buffer == DecodeAudioData(hd.msg.audio)
    IN /\ hd.pc = "decode"
       /\ buffer.ok
       /\ sourcesRef' = Append(sourcesRef,
              [h |-> h, at |-> StartAt(nextStartTimeRef, now), dur |-> buffer.duration,
               raised |-> cursorRaised, ctx |-> hd.ctx,
               begun |-> Max(StartAt(nextStartTimeRef, now), now)])
       /\ nextStartTimeRef' = CursorAfter(nextStartTimeRef, buffer.duration)
       /\ cursorRaised' = FALSE
       /\ ToolLoop(h, hd, 1, Transcripts(state, hd.msg), invocations)
       /\ UNCHANGED sessionVars
       /\ UNCHANGED <<now, nMsgs, outbox>>
       /\ UNCHANGED transcriptHist
       /\ UNCHANGED captureVars
       /\ UNCHANGED frameVars
       /\ UNCHANGED chatVars

\* The rejection taken as the end of the session.
DecodeFail_Abort(h) ==
    LET hd == handlers[h]
    IN /\ hd.pc = "decode"
       /\ ~DecodeAudioData(hd.msg.audio).ok
       /\ handlers' = [handlers EXCEPT ![h] = Finished("rejected")]
       /\ state' = [state EXCEPT !.isListening = FALSE]
       /\ UNCHANGED sessionVars
       /\ UNCHANGED audioVars
       /\ UNCHANGED <<now, nMsgs, invocations, outbox>>
       /\ UNCHANGED transcriptHist
       /\ UNCHANGED captureVars
       /\ UNCHANGED frameVars
       /\ UNCHANGED chatVars

\* The decode await of line 63 rejects: handleMessage ends there.
DecodeFail(h) ==
    LET hd == handlers[h]
    IN /\ hd.pc = "decode"
       /\ ~DecodeAudioData(hd.msg.audio).ok
       /\ handlers' = [handlers EXCEPT ![h] = Finished("rejected")]
       /\ UNCHANGED sessionVars
       /\ UNCHANGED audioVars
       /\ UNCHANGED <<state, now, nMsgs, invocations, outbox>>
       /\ UNCHANGED transcriptHist
       /\ UNCHANGED captureVars
       /\ UNCHANGED frameVars
       /\ UNCHANGED chatVars

\* The history never cut.
Slice_Unbounded(seq, n) == seq
\* [newSnippet, ...prev.history].slice(0, 15) of line 100
Slice(seq, n) == SubSeq(seq, 1, Min(Len(seq), n))

\* Line 93
CodeOf(text) == IF text = "" THEN SynthesisFailed ELSE text

\* The response labelled with an id made up by the dispatcher.
FunctionResponse_FreshId(fc) == [id |-> "call-1", name |-> fc.name, result |-> Compiled]
\* The response labelled with the call's name in place of its id.
FunctionResponse_NameAsId(fc) == [id |-> fc.name, name |-> fc.name, result |-> Compiled]
\* Line 107: the functionResponses entry for call fc.
FunctionResponse(fc) == [id |-> fc.id, name |-> fc.name, result |-> Compiled]

\* history: what became of invocation k.
Settle(invs, k, status, outcome, text, done) ==
    [invs EXCEPT ![k] = [@ EXCEPT !.status = status, !.outcome = outcome,
                                  !.text = text, !.done = done]]

\* generateContent (line 87) returns text: lines 93-105.
GenReturn(h, text) ==
    LET hd == handlers[h]
        fc == hd.msg.calls[hd.i]
        code == CodeOf(text)
        newSnippet == [language |-> fc.language, code |-> code, description |-> fc.description]
        st == [state EXCEPT !.currentCode = code, !.isProcessing = FALSE,
                            !.history = Slice(<<newSnippet>> \o state.history, HistoryLimit)]
    IN /\ hd.pc = "gen"
       /\ IF sessionPromiseRef # 0
          THEN /\ handlers' = [handlers EXCEPT ![h] =
                      [hd EXCEPT !.pc = "sess", !.awaiting = sessionPromiseRef]]
               /\ state' = st
               /\ invocations' =
                      [Settle(invocations, hd.cur, "Completed", "ok", text, FALSE)
                          EXCEPT ![hd.cur].awaited = sessionPromiseRef]
          ELSE ToolLoop(h, hd, hd.i + 1, st,
                        Settle(invocations, hd.cur, "Completed", "ok", text, TRUE))
       /\ UNCHANGED sessionVars
       /\ UNCHANGED audioVars
       /\ UNCHANGED <<now, nMsgs, outbox>>
       /\ UNCHANGED transcriptHist
       /\ UNCHANGED captureVars
       /\ UNCHANGED frameVars
       /\ UNCHANGED chatVars

\* generateContent (line 87) fails: the catch of lines 110-112, then the
\* next function call.
GenFail(h) ==
    LET hd == handlers[h]
        st == [state EXCEPT !.isProcessing = FALSE, !.error = KernelOverload]
    IN /\ hd.pc = "gen"
       /\ ToolLoop(h, hd, hd.i + 1, st,
                   Settle(invocations, hd.cur, "Failed", "error", "", TRUE))
       /\ UNCHANGED sessionVars
       /\ UNCHANGED audioVars
       /\ UNCHANGED <<now, nMsgs, outbox>>
       /\ UNCHANGED transcriptHist
       /\ UNCHANGED captureVars
       /\ UNCHANGED frameVars
       /\ UNCHANGED chatVars

\* The await of line 105 yields the session: lines 106-108, then the next
\* function call.  The promise awaited is the one the ref held at line 105.
SessResolved(h) ==
    LET hd == handlers[h]
        fc == hd.msg.calls[hd.i]
        inv == invocations[hd.cur]
    IN /\ hd.pc = "sess"
       /\ conn[hd.awaiting] \in {"open", "closed"}
       /\ outbox' = Append(outbox,
              [inv |-> hd.cur, sess |-> hd.awaiting, response |-> FunctionResponse(fc)])
       /\ ToolLoop(h, hd, hd.i + 1, state,
                   Settle(invocations, hd.cur, inv.status, inv.outcome, inv.text, TRUE))
       /\ UNCHANGED sessionVars
       /\ UNCHANGED audioVars
       /\ UNCHANGED <<now, nMsgs>>
       /\ UNCHANGED transcriptHist
       /\ UNCHANGED captureVars
       /\ UNCHANGED frameVars
       /\ UNCHANGED chatVars

\* The await of line 105 rejects (the connection of the awaited promise
\* failed): the catch of lines 110-112, then the next function call.
SessRejected(h) ==
    LET hd == handlers[h]
        inv == invocations[hd.cur]
        st == [state EXCEPT !.isProcessing = FALSE, !.error = KernelOverload]
    IN /\ hd.pc = "sess"
       /\ conn[hd.awaiting] = "failed"
       /\ ToolLoop(h, hd, hd.i + 1, st,
                   Settle(invocations, hd.cur, "Failed", inv.outcome, inv.text, TRUE))
       /\ UNCHANGED sessionVars
       /\ UNCHANGED audioVars
       /\ UNCHANGED <<now, nMsgs, outbox>>
       /\ UNCHANGED transcriptHist
       /\ UNCHANGED captureVars
       /\ UNCHANGED frameVars
       /\ UNCHANGED chatVars

\* -------------------------------------------------------- handleSendMessage
\* The grounding buttons of line 365.
SetGrounding(g) ==
    /\ state.useGrounding # g
    /\ state' = [state EXCEPT !.useGrounding = g]
    /\ UNCHANGED sessionVars
    /\ UNCHANGED audioVars
    /\ UNCHANGED transcriptHist
    /\ UNCHANGED captureVars
    /\ UNCHANGED frameVars
    /\ UNCHANGED chatVars
    /\ UNCHANGED <<now, handlers, nMsgs, invocations, outbox>>

\* Lines 185-199 and 215-219: the generateContent call of invocation c;
\* grounding stands for config.tools, located tells whether
\* config.toolConfig carries latLng.
Request(c, grounding, located) ==
    [chat |-> c, grounding |-> grounding, located |-> located]

\* handleSendMessage is called (the send button, or the Enter key of the
\* input, which is not disabled while isProcessing): lines 171-193 with maps
\* grounding, up to the await of getCurrentPosition, and lines 171-215
\* otherwise, up to the await of generateContent.
SendMessage(c) ==
    /\ chats[c].pc = "none"
    /\ \A b \in Chats : b < c => chats[b].pc # "none"
    /\ state' = [state EXCEPT !.isProcessing = TRUE,
                              !.chatHistory = Append(@, [role |-> "user", chat |-> c, text |-> "q"])]
    /\ IF state.useGrounding = "maps"
       THEN /\ chats' = [chats EXCEPT ![c] = [pc |-> "geo", grounding |-> "maps", geo |-> "pending"]]
            /\ UNCHANGED requests
       ELSE /\ chats' = [chats EXCEPT ![c] =
                   [pc |-> "gen", grounding |-> state.useGrounding, geo |-> "none"]]
            /\ requests' = Append(requests, Request(c, state.useGrounding, FALSE))
    /\ UNCHANGED sessionVars
    /\ UNCHANGED audioVars
    /\ UNCHANGED transcriptHist
    /\ UNCHANGED captureVars
    /\ UNCHANGED frameVars
    /\ UNCHANGED <<now, handlers, nMsgs, invocations, outbox>>

\* getCurrentPosition succeeds: lines 195-215.
GeoResolved(c) ==
    /\ chats[c].pc = "geo"
    /\ chats' = [chats EXCEPT ![c] = [@ EXCEPT !.pc = "gen", !.geo = "ok"]]
    /\ requests' = Append(requests, Request(c, chats[c].grounding, TRUE))
    /\ UNCHANGED sessionVars
    /\ UNCHANGED audioVars
    /\ UNCHANGED transcriptHist
    /\ UNCHANGED captureVars
    /\ UNCHANGED frameVars
    /\ UNCHANGED <<state, now, handlers, nMsgs, invocations, outbox>>

\* The failure not caught at line 200: it reaches the catch of line 247.
GeoRejected_Fatal(c) ==
    /\ chats[c].pc = "geo"
    /\ chats' = [chats EXCEPT ![c] = [@ EXCEPT !.pc = "failed", !.geo = "failed"]]
    /\ state' = [state EXCEPT !.isProcessing = FALSE, !.error = NeuralLinkFailed]
    /\ UNCHANGED sessionVars
    /\ UNCHANGED audioVars
    /\ UNCHANGED transcriptHist
    /\ UNCHANGED captureVars
    /\ UNCHANGED frameVars
    /\ UNCHANGED <<requests, now, handlers, nMsgs, invocations, outbox>>

\* getCurrentPosition fails: the empty catch of line 200, then lines 203-215.
GeoRejected(c) ==
    /\ chats[c].pc = "geo"
    /\ chats' = [chats EXCEPT ![c] = [@ EXCEPT !.pc = "gen", !.geo = "failed"]]
    /\ requests' = Append(requests, Request(c, chats[c].grounding, FALSE))
    /\ UNCHANGED sessionVars
    /\ UNCHANGED audioVars
    /\ UNCHANGED transcriptHist
    /\ UNCHANGED captureVars
    /\ UNCHANGED frameVars
    /\ UNCHANGED <<state, now, handlers, nMsgs, invocations, outbox>>

\* Line 235
ReplyOf(text) == IF text = "" THEN NoResponse ELSE text

\* generateContent (line 215) returns: lines 221-245.
ChatReturn(c, text) ==
    /\ chats[c].pc = "gen"
    /\ chats' = [chats EXCEPT ![c] = [@ EXCEPT !.pc = "done"]]
    /\ state' = [state EXCEPT !.isProcessing = FALSE,
                              !.chatHistory = Append(@, [role |-> "assistant", chat |-> c,
                                                         text |-> ReplyOf(text)])]
    /\ UNCHANGED sessionVars
    /\ UNCHANGED audioVars
    /\ UNCHANGED transcriptHist
    /\ UNCHANGED captureVars
    /\ UNCHANGED frameVars
    /\ UNCHANGED <<requests, now, handlers, nMsgs, invocations, outbox>>

\* generateContent (line 215) fails: the catch of lines 247-250.
ChatFail(c) ==
    /\ chats[c].pc = "gen"
    /\ chats' = [chats EXCEPT ![c] = [@ EXCEPT !.pc = "failed"]]
    /\ state' = [state EXCEPT !.isProcessing = FALSE, !.error = NeuralLinkFailed]
    /\ UNCHANGED sessionVars
    /\ UNCHANGED audioVars
    /\ UNCHANGED transcriptHist
    /\ UNCHANGED captureVars
    /\ UNCHANGED frameVars
    /\ UNCHANGED <<requests, now, handlers, nMsgs, invocations, outbox>>

\* ------------------------------------------------------------- PreviewFrame
\* The timeout due at once.
Effect_NoDelay(c, d, upd) ==
    IF c = d
    THEN [isUpdating |-> upd, timer |-> NoTimer]
    ELSE [isUpdating |-> TRUE, timer |-> [set |-> TRUE, code |-> c, left |-> 0]]
\* The effect of lines 12-22 run with prop c and state d, upd: the new
\* isUpdating and the timeout it leaves pending.
Effect(c, d, upd) ==
    IF c = d
    THEN [isUpdating |-> upd, timer |-> NoTimer]
    ELSE [isUpdating |-> TRUE, timer |-> [set |-> TRUE, code |-> c, left |-> Delay]]

\* The parent renders the frame with another code: the cleanup of line 21
\* clears the pending timeout, then the effect runs again.
Rerender(c) ==
    /\ c # codeProp
    /\ edits < MaxEdits
    /\ codeProp' = c
    /\ isUpdating' = Effect(c, debouncedCode, isUpdating).isUpdating
    /\ timer' = Effect(c, debouncedCode, isUpdating).timer
    /\ stable' = 0
    /\ edits' = edits + 1
    /\ lastTimeout' = IF c # debouncedCode THEN "pending"
                      ELSE IF timer.set THEN "cleared" ELSE lastTimeout
    /\ UNCHANGED <<debouncedCode, rendered>>
    /\ UNCHANGED <<state, now, handlers, nMsgs, invocations, outbox>>
    /\ UNCHANGED sessionVars
    /\ UNCHANGED audioVars
    /\ UNCHANGED transcriptHist
    /\ UNCHANGED captureVars
    /\ UNCHANGED chatVars

\* Time passes; a timeout that is due runs before more time passes.
Tick ==
    /\ timer.set => timer.left > 0
    /\ stable <= Delay
    /\ stable' = stable + Quantum
    /\ timer' = IF timer.set THEN [timer EXCEPT !.left = Max(0, @ - Quantum)] ELSE timer
    /\ UNCHANGED <<codeProp, debouncedCode, isUpdating, lastTimeout, rendered, edits>>
    /\ UNCHANGED <<state, now, handlers, nMsgs, invocations, outbox>>
    /\ UNCHANGED sessionVars
    /\ UNCHANGED audioVars
    /\ UNCHANGED transcriptHist
    /\ UNCHANGED captureVars
    /\ UNCHANGED chatVars

\* The timeout callback of lines 16-19, and the effect run again for the new
\* debouncedCode.
TimerFires ==
    /\ timer.set
    /\ timer.left = 0
    /\ debouncedCode' = timer.code
    /\ isUpdating' = Effect(codeProp, timer.code, FALSE).isUpdating
    /\ timer' = Effect(codeProp, timer.code, FALSE).timer
    /\ lastTimeout' = IF codeProp # timer.code THEN "pending" ELSE "fired"
    /\ rendered' = Append(rendered, timer.code)
    /\ UNCHANGED <<codeProp, stable, edits>>
    /\ UNCHANGED <<state, now, handlers, nMsgs, invocations, outbox>>
    /\ UNCHANGED sessionVars
    /\ UNCHANGED audioVars
    /\ UNCHANGED transcriptHist
    /\ UNCHANGED captureVars
    /\ UNCHANGED chatVars

\* ------------------------------------------------------------ specification
Started == {a \in Attempts : startPc[a] # "idle"}
Suspended == {a \in Attempts : startPc[a] \in {"gum", "resume"}}

Callbacks ==
    \/ \E a \in Attempts : GumResolved(a)
    \/ \E a \in Attempts : GumRejected(a)
    \/ \E a \in Attempts : ResumeDone(a)
    \/ \E a \in Attempts : ConnOpen(a)
    \/ \E a \in Attempts : ConnectResolved(a)
    \/ \E a \in Attempts : ConnFail(a)
    \/ \E a \in Attempts : ConnClose(a)

\* The session alone: every interleaving of MaxStarts startSession
\* invocations (the button may be clicked again while one is suspended)
\* with stopSession and the transport callbacks.
Next ==
    \/ ClickStart /\ Cardinality(Started) < MaxStarts
    \/ ClickStop
    \/ Callbacks

Spec == Init /\ [][Next]_vars

\* Sessions started one after the other: the button is not clicked while a
\* startSession invocation is suspended.
OneAtATime(starts) ==
    \/ ClickStart /\ Cardinality(Started) < starts /\ Suspended = {}
    \/ ClickStop
    \/ Callbacks

\* The session with inbound audio and transcription messages.
NextAudio ==
    \/ OneAtATime(AudioStarts)
    \/ \E a \in Attempts, m \in AudioMessages \cup TranscriptMessages, t \in 0..MaxTime :
          Receive(a, m, t)
    \/ \E h \in Handlers : DecodeOk(h)
    \/ \E h \in Handlers : DecodeFail(h)

SpecAudio == Init /\ [][NextAudio]_vars

\* A session with inbound audio, stopped and started again.
NextRestart ==
    \/ OneAtATime(MaxStarts)
    \/ \E a \in Attempts, m \in AudioMessages, t \in 0..MaxTime : Receive(a, m, t)
    \/ \E h \in Handlers : DecodeOk(h)
    \/ \E h \in Handlers : DecodeFail(h)

SpecRestart == Init /\ [][NextRestart]_vars

\* The function calls of a message that start a job (line 81), and the jobs
\* the messages received so far start.
Jobs(calls) == Cardinality({j \in DOMAIN calls : calls[j].name = GenerateCode})
Accepted ==
    LET Pending(h) ==
            IF handlers[h].pc \in {"decode", "gen", "sess"}
            THEN Cardinality({j \in DOMAIN handlers[h].msg.calls :
                                j > handlers[h].i
                                /\ handlers[h].msg.calls[j].name = GenerateCode})
            ELSE 0
        RECURSIVE Sum(_)
        Sum(h) == IF h = 0 THEN 0 ELSE Pending(h) + Sum(h - 1)
    IN Len(invocations) + Sum(Max(MaxMsgs, ToolMsgs))

\* The session with inbound toolCall messages.
NextTool ==
    \/ OneAtATime(ToolStarts)
    \/ \E a \in Attempts, m \in ToolMessages :
          /\ nMsgs < ToolMsgs
          /\ Accepted + Jobs(m.calls) <= MaxJobs
          /\ Receive(a, m, now)
    \/ \E h \in Handlers, text \in ResponseTexts : GenReturn(h, text)
    \/ \E h \in Handlers : GenFail(h)
    \/ \E h \in Handlers : SessResolved(h)
    \/ \E h \in Handlers : SessRejected(h)

SpecTool == Init /\ [][NextTool]_vars

\* The session with the capture processor producing frames.
NextCapture ==
    \/ OneAtATime(CaptureStarts)
    \/ \E a \in Attempts : Capture(a)

SpecCapture == Init /\ [][NextCapture]_vars

\* The same with sessions started again and again, one after the other.
NextRecapture ==
    \/ OneAtATime(RecaptureStarts)
    \/ \E a \in Attempts : Capture(a)

SpecRecapture == Init /\ [][NextRecapture]_vars

\* More successful tool jobs than the history holds: a toolCall message of
\* HistoryLimit + 1 generate_code calls and a message of one call, each
\* received once and in either order, the invocation of the second running
\* while the first is suspended.  generateContent answers each call with a
\* text of its own.
Batch ==
    Msg(NoAudio, Null, Null,
        [i \in 1..(HistoryLimit + 1) |-> Call(ToString(i), GenerateCode)])
HistoryMessages == {Batch, Msg(NoAudio, Null, Null, <<Call("X", GenerateCode)>>)}
TextFor(fc) == "code for " \o fc.id
NextHistory ==
    \/ ClickStart /\ Started = {}
    \/ Callbacks
    \/ \E a \in Attempts, m \in HistoryMessages :
          /\ \A k \in DOMAIN invocations : invocations[k].id # m.calls[1].id
          /\ Receive(a, m, now)
    \/ \E h \in Handlers :
          /\ handlers[h].pc = "gen"
          /\ GenReturn(h, TextFor(handlers[h].msg.calls[handlers[h].i]))
    \/ \E h \in Handlers : SessResolved(h)

SpecHistory == Init /\ [][NextHistory]_vars

\* The preview frame under a parent that changes its code prop.
Codes == {"", "<div>a</div>", "<div>b</div>"}
NextFrame ==
    \/ \E c \in Codes : Rerender(c)
    \/ Tick
    \/ TimerFires

SpecFrame == Init /\ [][NextFrame]_vars

\* The assistant panel: chat requests under every grounding.
Grounding == {"none", "search", "maps"}
Chatting ==
    \/ \E g \in Grounding : SetGrounding(g)
    \/ \E c \in Chats : SendMessage(c)
    \/ \E c \in Chats : GeoResolved(c)
    \/ \E c \in Chats : GeoRejected(c)
    \/ \E c \in Chats, text \in ResponseTexts : ChatReturn(c, text)
    \/ \E c \in Chats : ChatFail(c)

SpecChat == Init /\ [][Chatting]_vars

\* ------------------------------------------------------------------- claims
Running == {h \in Handlers : handlers[h].pc \in {"decode", "gen", "sess"}}
Responses(k) == {e \in DOMAIN outbox : outbox[e].inv = k}

\* C1  Playback monotonicity.  In the order of the calls to source.start,
\* every buffer starts no earlier than the previous one ends, the cursor is
\* never behind the end of the last buffer started, and no step lowers the
\* cursor; also when handleMessage invocations overlap at the decode await.
NoOverlap ==
    /\ \A i \in 1..(Len(sourcesRef) - 1) :
          sourcesRef[i + 1].at >= sourcesRef[i].at + sourcesRef[i].dur
    /\ \A i \in DOMAIN sourcesRef :
          nextStartTimeRef >= sourcesRef[i].at + sourcesRef[i].dur
C1_PlaybackMonotonic == [][NoOverlap' /\ nextStartTimeRef' >= nextStartTimeRef]_vars

\* Two buffers started, the later message's buffer first: its handleMessage
\* invocation began while the earlier one was suspended at the decode await.
C1_Witness ==
    /\ Len(sourcesRef) >= 2
    /\ sourcesRef[1].h > sourcesRef[2].h

\* C2  Gap-free when back-pressured.  A buffer started when no audio message
\* has arrived with the clock past the cursor since the previous start
\* begins exactly where the previous buffer ends.
C2_GapFree ==
    \A i \in 1..(Len(sourcesRef) - 1) :
        ~sourcesRef[i + 1].raised
            => sourcesRef[i + 1].at = sourcesRef[i].at + sourcesRef[i].dur

C2_Witness ==
    /\ Len(sourcesRef) >= 2
    /\ ~sourcesRef[2].raised

\* C3  Transcript last-write-wins.  Once every message received has been
\* handled, each channel's stored text is the text of the newest event
\* received for that channel.
Expected(last) == IF last = Null THEN "" ELSE OrEmpty(last)
C3_LastWriteWins ==
    Running = {}
        => /\ state.liveUserText = Expected(lastInput)
           /\ state.liveAiText = Expected(lastOutput)

C5_OrphanDiscarded ==
    \A k \in DOMAIN invocations :
        invocations[k].stopped => Responses(k) = {}

\* C6  Idempotent stop.  In every state, stopSession applied twice leaves
\* what stopSession applied once leaves; where nothing was ever started it
\* changes nothing; and what it leaves is not listening, with the capture
\* stream released and the transport closed.
C6_IdempotentStop ==
    LET once == stopSession(Session)
        twice == stopSession(once)
    IN /\ twice = once
       /\ (streamRef = 0 /\ audioContextRef = 0 /\ ~state.isListening) => once = Session
       /\ state.isListening
             => /\ ~once.isListening
                /\ once.stream[once.streamRef] = "stopped"
                /\ once.conn[once.sessionPromiseRef] \in {"closed", "failed"}

\* C7  Device-denial path.  The step in which getUserMedia rejects sets the
\* error reason; no step of a startSession invocation up to that rejection
\* changes isListening; and the invocation never has a stream, an audio
\* context or a connection.
C7_DeviceDenial ==
    [][\A a \in Attempts :
          /\ (startPc[a] = "gum" /\ startPc'[a] = "denied")
                => state'.error = MicDenied
          /\ (startPc'[a] # startPc[a] /\ startPc'[a] \in {"gum", "denied"})
                => state'.isListening = state.isListening
          /\ startPc'[a] = "denied"
                => /\ stream'[a] = "none"
                   /\ audioCtx'[a] = "none"
                   /\ conn'[a] = "none"
                   /\ sessionPromiseRef' # a]_vars

C7_Witness ==
    \E a \in Attempts :
        /\ startPc[a] = "denied"
        /\ state.error = MicDenied
        /\ ~state.isListening

\* C8  AlreadyActive.  At every moment at most one capture stream is live
\* and at most one connection is connecting or open: a startSession call
\* made while another is in progress or a session is live acquires nothing.
C8_AlreadyActive ==
    /\ Cardinality({a \in Attempts : stream[a] = "live"}) <= 1
    /\ Cardinality({a \in Attempts : conn[a] \in {"connecting", "opened", "open"}}) <= 1

\* The session that delivered invocation inv is still the current one, open
\* and not stopped.
StayedOpen(inv) ==
    /\ conn[inv.sess] = "open"
    /\ audioCtx[inv.sess] = "running"
    /\ sessionPromiseRef = inv.sess

\* C9  Exactly-one tool result.  No invocation ever has two tool responses,
\* and one whose generation call has returned or failed while its session
\* stayed open has exactly one.
C9_ExactlyOneResult ==
    \A k \in DOMAIN invocations :
        /\ Cardinality(Responses(k)) <= 1
        /\ (invocations[k].done /\ StayedOpen(invocations[k]))
              => Cardinality(Responses(k)) = 1

\* C10  Tool-job failure is contained.  The step in which a generation call
\* fails leaves isListening, the connections, the capture stream, the audio
\* contexts and the playback cursor as they were, and the failed invocation
\* has a tool response bearing its id.
C10_FailureDelivered ==
    [][\A k \in DOMAIN invocations :
          (invocations[k].outcome = "pending" /\ invocations'[k].outcome = "error")
            => /\ state'.isListening = state.isListening
               /\ UNCHANGED <<conn, stream, audioCtx, nextStartTimeRef>>
               /\ \E e \in DOMAIN outbox' :
                     /\ outbox'[e].inv = k
                     /\ outbox'[e].response.id = invocations[k].id]_vars

\* Parts of C6 that hold of stopSession.
StopTwiceIsStopOnce ==
    LET once == stopSession(Session)
    IN /\ stopSession(once) = once
       /\ state.isListening => ~once.isListening /\ once.stream[once.streamRef] = "stopped"

\* C11  Tool dispatch does not block the receive path.  While a job's
\* generation call is outstanding, no generate_code call of the same
\* toolCall message is still waiting to be started.
C11_DispatchNotInline ==
    \A h \in Handlers :
        handlers[h].pc = "gen"
            => \A j \in DOMAIN handlers[h].msg.calls :
                  j > handlers[h].i => handlers[h].msg.calls[j].name # GenerateCode

\* The part of C11 about later messages: a message that arrives while a
\* generation call is outstanding is handled by its own handleMessage
\* invocation at once.
LaterMessageHandled ==
    [][\A h \in Handlers :
          (handlers[h].pc = "none" /\ handlers'[h].pc # "none")
            => handlers'[h].pc \in {"gen", "done"}]_vars

\* C12  At most one concurrent job per invocation id.  No two generation
\* calls are outstanding at the same time for the same invocation id.
C12_OneJobPerId ==
    \A k1, k2 \in DOMAIN invocations :
        (k1 # k2 /\ invocations[k1].id = invocations[k2].id)
            => ~(invocations[k1].status = "Dispatched" /\ invocations[k2].status = "Dispatched")

\* C13  Invocation id echo.  Every tool response sent answers an invocation
\* received before it and carries that invocation's id and name as they
\* were received.
C13_IdEcho ==
    \A e \in DOMAIN outbox :
        /\ outbox[e].inv \in DOMAIN invocations
        /\ outbox[e].response.id = invocations[outbox[e].inv].id
        /\ outbox[e].response.name = invocations[outbox[e].inv].name

\* Two invocations with different ids, the second one answered.
C13_Witness ==
    \E e \in DOMAIN outbox :
        /\ outbox[e].inv = 2
        /\ outbox[e].response.id = "Y"
        /\ invocations[1].id = "X"

\* C14  Teardown of playback.  The step in which stopSession stops the
\* capture stream leaves the pending-source set empty.
C14_SourcesCleared ==
    [][(streamRef # 0 /\ stream[streamRef] # "stopped" /\ stream'[streamRef] = "stopped")
          => sourcesRef' = <<>>]_vars

\* C15  Scheduler state does not outlive a session.  The step of
\* startSession that installs the new output context leaves the cursor at
\* that context's start time, and the first buffer started on the session's
\* output context starts no later than its clock reads at that moment.
C15_CursorReset ==
    [][/\ \A a \in Attempts :
             (startPc[a] = "resume" /\ startPc'[a] = "done")
                => nextStartTimeRef' = now'
       /\ Len(sourcesRef') > Len(sourcesRef)
             => LET new == sourcesRef'[Len(sourcesRef')]
                IN (/\ new.ctx = outAudioContextRef
                    /\ \A i \in DOMAIN sourcesRef : sourcesRef[i].ctx # new.ctx)
                      => new.at <= now']_vars

\* The second half of C15 alone: the first buffer started on the current
\* output context is never scheduled later than its clock reads.
FirstBufferAtClock ==
    [][Len(sourcesRef') > Len(sourcesRef)
          => LET new == sourcesRef'[Len(sourcesRef')]
             IN (/\ new.ctx = outAudioContextRef
                 /\ \A i \in DOMAIN sourcesRef : sourcesRef[i].ctx # new.ctx)
                   => new.at <= now']_vars

\* C16  Arrival order is playback order.  Of two audio messages, the buffer
\* of the one received first is started no later than the buffer of the
\* other.
C16_ArrivalOrder ==
    \A i, j \in DOMAIN sourcesRef :
        sourcesRef[i].h < sourcesRef[j].h => sourcesRef[i].at <= sourcesRef[j].at

\* C17  Inbound events are handled one at a time.  A handleMessage
\* invocation begins only when no earlier one is still in progress.
C17_OneAtATime ==
    [][nMsgs' # nMsgs => Running = {}]_vars

\* the entries of wire for frame n, and the places frame n waits at
SentAs(n) == {e \in DOMAIN wire : wire[e].n = n}
WaitsAt(n) == {q \in Attempts \X (1..MaxFrames) : q[2] \in DOMAIN thens[q[1]] /\ thens[q[1]][q[2]] = n}

\* C18  No silent drop before Open.  No frame is passed to
\* sendRealtimeInput of a session whose promise is not fulfilled; every
\* frame captured is either waiting on a pending promise or was sent, once;
\* and the step that fulfils the promise sends the waiting frames in the
\* order they were captured.
C18_NoSilentDrop ==
    [][/\ \A e \in DOMAIN wire' : conn'[wire'[e].sess] \in {"open", "closed"}
       /\ \A n \in 1..captured' : Cardinality(SentAs(n)') + Cardinality(WaitsAt(n)') = 1
       /\ \A a \in Attempts :
             (conn[a] = "opened" /\ conn'[a] # "opened")
                => /\ Len(wire') = Len(wire) + Len(thens[a])
                   /\ \A i \in DOMAIN thens[a] :
                         /\ wire'[Len(wire) + i].n = thens[a][i]
                         /\ wire'[Len(wire) + i].sess = a]_vars

\* Two frames captured before the promise was fulfilled, both sent.
C18_Witness ==
    Cardinality({e \in DOMAIN wire : wire[e].waited}) >= 2

\* C19  FIFO within the audio kind.  The frames of a session are passed to
\* sendRealtimeInput in the order they were captured, and a frame still
\* waiting was captured after every frame of its session already sent.
C19_FramesInOrder ==
    /\ \A e1, e2 \in DOMAIN wire :
          (e1 < e2 /\ wire[e1].sess = wire[e2].sess) => wire[e1].n < wire[e2].n
    /\ \A a \in Attempts :
          /\ \A i, j \in DOMAIN thens[a] : i < j => thens[a][i] < thens[a][j]
          /\ \A i \in DOMAIN thens[a], e \in DOMAIN wire :
                wire[e].sess = a => wire[e].n < thens[a][i]

\* A frame that waited for the promise and one sent at once, same session.
C19_Witness ==
    \E e1, e2 \in DOMAIN wire :
        /\ e1 < e2
        /\ wire[e1].sess = wire[e2].sess
        /\ wire[e1].waited
        /\ ~wire[e2].waited

\* stopSession has returned and startSession has not been called since, or
\* was refused the microphone.
StopReturned ==
    /\ ~state.isListening
    /\ Suspended = {}
    /\ streamRef # 0
    /\ stream[streamRef] = "stopped"

\* C20  Stop halts capture.  Once stopSession has returned, no frame
\* captured from then on is passed to sendRealtimeInput of an open session.
C20_StopHaltsCapture ==
    [][StopReturned
          => \A e \in DOMAIN wire' :
                e > Len(wire) => (~wire'[e].open \/ wire'[e].waited)]_vars

\* What C20 singles out: a session stopped before onopen, no other session
\* having been started, never captures a frame.
StoppedWhileConnecting ==
    \A a \in Attempts :
        (Started = {a} /\ scriptProcessor[a] = "connected" /\ audioCtx[a] = "closed")
            => \A e \in DOMAIN wire : wire[e].sess # a

\* C21  Stop closes the transport.  Once stopSession has returned, the
\* connection held by sessionPromiseRef is closed: it is not connecting,
\* and not open to deliver or to send.
C21_StopClosesTransport ==
    (StopReturned /\ sessionPromiseRef # 0)
        => conn[sessionPromiseRef] \in {"closed", "failed"}

\* What follows from the connection staying open: a message is delivered
\* and handled after stopSession has returned.
NoReceiveAfterStop ==
    [][StopReturned => nMsgs' = nMsgs]_vars

\* C22  Live only after Open.  Whenever isListening is true, the connection
\* of the current session has had its onopen and has not failed, and the
\* capture stream of the current session has been acquired.
C22_LiveOnlyAfterOpen ==
    state.isListening
        => /\ sessionPromiseRef # 0
           /\ conn[sessionPromiseRef] \in {"opened", "open"}
           /\ streamRef # 0
           /\ stream[streamRef] = "live"

\* C23  Transport failure is session-fatal.  The step in which the
\* connection of the live session drops or fails leaves the session not
\* live, with an error reason set and its capture stream released, and
\* starts no new connection.
C23_TransportFailureFatal ==
    [][\A a \in Attempts :
          (/\ state.isListening
           /\ a = sessionPromiseRef
           /\ conn[a] \in {"connecting", "opened", "open"}
           /\ conn'[a] \in {"closed", "failed"})
            => /\ ~state'.isListening
               /\ state'.error # Null
               /\ stream'[a] # "live"
               /\ startPc' = startPc
               /\ \A b \in Attempts : conn'[b] = "connecting" => conn[b] = "connecting"]_vars

\* The parts of C23 the code keeps when the drop reaches onclose: the
\* session leaves Live and nothing reconnects.
DropLeavesLive ==
    [][\A a \in Attempts :
          (conn[a] = "open" /\ conn'[a] = "closed")
            => /\ ~state'.isListening
               /\ startPc' = startPc
               /\ \A b \in Attempts : conn'[b] = "connecting" => conn[b] = "connecting"]_vars

\* the handleMessage invocations that take their first step, with a payload
\* that does not decode, and those whose decode is rejected in this step
ArrivesMalformed(h) ==
    /\ handlers[h].pc = "none"
    /\ handlers'[h].pc = "decode"
    /\ ~DecodeAudioData(handlers'[h].msg.audio).ok
DecodeRejected(h) == handlers[h].pc = "decode" /\ handlers'[h].pc = "rejected"

C25_NoFinishedSource ==
    \A i \in DOMAIN sourcesRef :
        sourcesRef[i].ctx = outAudioContextRef
            => now < sourcesRef[i].begun + sourcesRef[i].dur


\* C26: with maps grounding, a failure of getCurrentPosition does not fail the
\* chat request: on the step where the position is refused the invocation goes
\* on to generateContent, the call is made with the maps tool but without
\* latLng, and error is left as it was.
C26_GeoFailureSwallowed ==
    [][\A c \in Chats :
          (chats[c].pc = "geo" /\ chats'[c].geo = "failed")
              => /\ chats'[c].pc = "gen"
                 /\ requests' = Append(requests, [chat |-> c, grounding |-> "maps", located |-> FALSE])
                 /\ state'.error = state.error
                 /\ state'.isProcessing = state.isProcessing]_vars

\* a chat whose position was refused has been answered, and no error is set
C26_Witness ==
    \E c \in Chats :
        /\ chats[c].geo = "failed"
        /\ chats[c].pc = "done"
        /\ state.error = Null
        /\ \E i \in DOMAIN state.chatHistory :
               state.chatHistory[i] = [role |-> "assistant", chat |-> c, text |-> "def rev(s): return s[::-1]"]


\* the tool jobs awaiting generateContent (line 87) and the chat requests
\* between line 172 and their last setState
ToolJobsInFlight == {h \in Handlers : handlers[h].pc = "gen"}
ChatsInFlight == {c \in Chats : chats[c].pc \in {"geo", "gen"}}

\* C27: isProcessing is true whenever a tool job or a chat request is in
\* flight, and false once none is; a job that finishes does not clear the flag
\* while another one is still outstanding.
C27_BusyWhileOutstanding ==
    state.isProcessing <=> (ToolJobsInFlight # {} \/ ChatsInFlight # {})


\* the tool job k completes successfully on this step
Completes(k) ==
    /\ invocations[k].status = "Dispatched"
    /\ invocations'[k].status = "Completed"

\* C28: the history holds at most 15 snippets; a job that completes puts its
\* snippet first and its code in currentCode, the snippets already held follow
\* in the order they had (so the order is completion order reversed), the
\* oldest being dropped when there would be 16; no other step touches the
\* history.
C28_HistoryNewestFirst ==
    [][/\ Len(state'.history) <= 15
       /\ \A k \in DOMAIN invocations :
             Completes(k) =>
                 /\ Len(state'.history) = Min(Len(state.history) + 1, 15)
                 /\ state'.history[1].description = "spec of " \o invocations[k].id
                 /\ state'.currentCode = state'.history[1].code
                 /\ invocations'[k].text # "" => state'.currentCode = invocations'[k].text
                 /\ \A i \in 2..Len(state'.history) : state'.history[i] = state.history[i - 1]
       /\ (\A k \in DOMAIN invocations : ~Completes(k)) => state'.history = state.history]_vars

\* 17 jobs have completed, the one dispatched first completing last: the
\* history is full, its snippet is first, and the two oldest are gone
C28_Witness ==
    /\ Len(state.history) = 15
    /\ Cardinality({k \in DOMAIN invocations : invocations[k].status = "Completed"}) = 17
    /\ invocations[1].id = "X"
    /\ state.history[1].description = "spec of X"
    /\ state.currentCode = "code for X"
    /\ state.history[15].description = "spec of 3"


\* a message arrives on this step and its handleMessage invocation returns
\* without dispatching a job
ArrivesWithoutJob ==
    /\ nMsgs' = nMsgs + 1
    /\ handlers'[nMsgs'].pc = "done"
    /\ invocations' = invocations

\* C29: a function call whose name is not generate_code starts no job and is
\* never answered: every job and every tool response is for a generate_code
\* call; and the arrival of a toolCall message holding only such a call
\* leaves isProcessing, currentCode, history and error as they were and sends
\* nothing.
C29_UnknownToolIgnored ==
    [][/\ \A k \in DOMAIN invocations' : invocations'[k].name = GenerateCode
       /\ \A e \in DOMAIN outbox' : outbox'[e].response.name = GenerateCode
       /\ ArrivesWithoutJob =>
             /\ state'.isProcessing = state.isProcessing
             /\ state'.currentCode = state.currentCode
             /\ state'.history = state.history
             /\ state'.error = state.error
             /\ outbox' = outbox]_vars

\* two messages were handled to the end and one of them, the call to the
\* unknown tool, left no job and no response, while a job was running
C29_Witness ==
    /\ nMsgs = 2
    /\ handlers[2].pc = "done"
    /\ handlers[1].pc = "gen"
    /\ Len(invocations) = 1
    /\ state.isProcessing
    /\ outbox = <<>>



SpinnerLeftOn ==
    /\ debouncedCode = codeProp
    /\ ~timer.set
    /\ lastTimeout = "cleared"
    /\ isUpdating

====
